---- MODULE Spec2Model ----
(***************************************************************************)
(* Model of the voice chatbot: the request surface (api_server.py), the    *)
(* answer-decision engine (chatbot.py: VoiceChatbot.run / run_text), the   *)
(* pipeline adapters (task5_rag_pipeline.py) and the chat history store    *)
(* (chat_db.py).                                                           *)
(*                                                                         *)
(* A request is a sequential control flow; its position is pc[r] and its   *)
(* locals are frame[r].  Requests interleave at the points where they      *)
(* touch the store or call a collaborator.  The generation, retrieval,     *)
(* transcription and translation services are collaborators: what they     *)
(* return is drawn from small sets of representative values.               *)
(***************************************************************************)
EXTENDS Integers, Sequences, FiniteSets, TLC

VARIABLES
    sessions,       \* table "sessions": set of rows [id, created_at, updated_at]
    messages,       \* table "messages": sequence of rows, in insertion (id) order
    now,            \* the wall clock, in the store's DATETIME resolution
    GROQ_API_KEY,   \* utils.config.GROQ_API_KEY is set (TRUE) or empty (FALSE)
    client,         \* VoiceChatbot._client has been created
    pc,             \* pc[r]: position of request r in its handler
    frame,          \* frame[r]: locals of request r and what it has sent so far
    last,           \* the last call a direct user of ChatDatabase made, and its outcome
    data_dir,       \* the .txt files in utils.config.DATA_DIR
    chroma,         \* the collection in the persistent ChromaDB directory
    query           \* query[k]: position and locals of call k of query_vector_db

\* The state of the vector store, and the state of everything else
vector == <<data_dir, chroma, query>>
server == <<sessions, messages, now, GROQ_API_KEY, client, pc, frame, last>>

vars == <<sessions, messages, now, GROQ_API_KEY, client, pc, frame, last,
          data_dir, chroma, query>>

(***************************************************************************)
(* Bounds of the model.                                                    *)
(***************************************************************************)
MaxMessages == 3        \* rows the messages table may hold
MaxClock    == 1        \* last clock value; later writes share this timestamp
MaxAppends  == 2        \* rows a direct user of ChatDatabase appends
MaxTurns    == 7        \* turns of a history handed to the engine directly

(***************************************************************************)
(* Program constants.                                                      *)
(***************************************************************************)
SLIDING_WINDOW_SIZE == 10
TOP_K_RETRIEVAL     == 2
PROMPT_TURNS        == 6       \* the slice history[-6:] of answer_with_retrieval

(***************************************************************************)
(* Value domains.                                                          *)
(***************************************************************************)
Requests     == {"r1", "r2"}            \* request slots
Loop         == {"r1"}                  \* the slot of the server's one event loop
SessionIds   == <<"s1", "s2">>          \* the ids create_session hands out, in order
Ranking      == <<"c1", "c2">>          \* the store's chunks, nearest to the question first
Languages    == {"hi-IN", "en-US"}      \* language tags of audio requests

\* Python's None, for values that are lists (chunks) and for values that are strings
None    == <<"None">>
NoneStr == "<None>"

Min(a, b) == IF a <= b THEN a ELSE b

\* str.strip() on the representative inputs
Strip(s) ==
    CASE s = " "   -> ""
      [] s = " q1" -> "q1"
      [] OTHER     -> s

(***************************************************************************)
(* JSON values as json.loads produces them.  A value is a record: its      *)
(* Python type, what the "in" operator finds in it (the keys of a dict,    *)
(* the elements of a list, the substrings of a str among the two probed    *)
(* names), and the values under "status" and "content" of a dict.          *)
(***************************************************************************)
Absent == "<absent>"

JDict(status, content) ==
    [type    |-> "dict",
     members |-> (IF status = Absent THEN {} ELSE {"status"})
                 \cup (IF content = Absent THEN {} ELSE {"content"}),
     status  |-> status,
     content |-> content]

JOther(type, members) ==
    [type |-> type, members |-> members, status |-> Absent, content |-> Absent]

NEED_MORE_CONTEXT == JDict("failure", "Need more context")

NoResult == JOther("unset", {})

\* Representative texts a phase-1 completion can carry
RAW_SUCCESS      == "{\"status\": \"success\", \"content\": \"h1\"}"
RAW_FAILURE      == "{\"status\": \"failure\", \"content\": \"Need more context\"}"
RAW_OTHER_STATUS == "{\"status\": \"Success\", \"content\": \"h1\"}"
RAW_NO_STATUS    == "{\"content\": \"h1\"}"
RAW_NO_CONTENT   == "{\"status\": \"success\"}"
RAW_NULL_CONTENT == "{\"status\": \"success\", \"content\": null}"
RAW_PROSE        == "I can answer that: h1"
RAW_NUMBER       == "42"
RAW_NULL         == "null"
RAW_LIST         == "[\"h1\"]"
RAW_LIST_BOTH    == "[\"status\", \"content\"]"

RawTexts ==
    {RAW_SUCCESS, RAW_FAILURE, RAW_OTHER_STATUS, RAW_NO_STATUS, RAW_NO_CONTENT,
     RAW_NULL_CONTENT, RAW_PROSE, RAW_NUMBER, RAW_NULL,
     RAW_LIST, RAW_LIST_BOTH}

\* json.loads: [ok |-> FALSE] is json.JSONDecodeError
JsonLoads(raw) ==
    CASE raw = RAW_SUCCESS      -> [ok |-> TRUE, value |-> JDict("success", "h1")]
      [] raw = RAW_FAILURE      -> [ok |-> TRUE, value |-> JDict("failure", "Need more context")]
      [] raw = RAW_OTHER_STATUS -> [ok |-> TRUE, value |-> JDict("Success", "h1")]
      [] raw = RAW_NO_STATUS    -> [ok |-> TRUE, value |-> JDict(Absent, "h1")]
      [] raw = RAW_NO_CONTENT   -> [ok |-> TRUE, value |-> JDict("success", Absent)]
      [] raw = RAW_NULL_CONTENT -> [ok |-> TRUE, value |-> JDict("success", NoneStr)]
      [] raw = RAW_NUMBER       -> [ok |-> TRUE, value |-> JOther("int", {})]
      [] raw = RAW_NULL         -> [ok |-> TRUE, value |-> JOther("NoneType", {})]
      [] raw = RAW_LIST         -> [ok |-> TRUE, value |-> JOther("list", {"h1"})]
      [] raw = RAW_LIST_BOTH    -> [ok |-> TRUE, value |-> JOther("list", {"status", "content"})]
      [] OTHER                  -> [ok |-> FALSE, value |-> NoResult]

\* Python's "key in value": defined for containers, TypeError for the rest
SupportsIn(v) == v.type \in {"dict", "list", "str"}
In(key, v)    == key \in v.members

\* Python's value["status"]: defined for a dict, TypeError for a list or a str
SupportsKey(v) == v.type = "dict"

(***************************************************************************)
(* The chat history store (chat_db.py).                                    *)
(***************************************************************************)
Roles == {"user", "assistant"}          \* Enum("user", "assistant")

NULL == <<"NULL">>                      \* SQL NULL in the metadata_json column

\* A dict key as json.dumps writes it: a key that is not a string becomes
\* one.  "#1" stands for the int key 1.
JsonKey(k) == IF k = "#1" THEN "1" ELSE k

\* json.dumps(metadata) as stored in the metadata_json column: the text is
\* represented by the JSON object it denotes
JsonDumps(metadata) ==
    <<"json", [k \in {JsonKey(x) : x \in DOMAIN metadata} |->
                  metadata[CHOOSE x \in DOMAIN metadata : JsonKey(x) = k]]>>

\* json.loads(m.metadata_json) if m.metadata_json else None, as
\* get_session_history reads a row's metadata.  NoMetadata is Python's None
\* where a metadata dict is expected.
NoMetadata == [none |-> TRUE]
MetadataOf(row) == IF row.metadata_json = NULL THEN NoMetadata ELSE row.metadata_json[2]

\* Python truthiness of the metadata argument: None and an empty dict are falsy
Truthy(metadata) == metadata # NoMetadata /\ DOMAIN metadata # {}

SessionExists(ss, session_id) == \E s \in ss : s.id = session_id

\* ChatMessage(...): the row add_message inserts
ChatMessage(msgs, session_id, role, content, metadata, created_at) ==
    [id            |-> Len(msgs) + 1,
     session_id    |-> session_id,
     role          |-> role,
     content       |-> content,
     metadata_json |-> IF Truthy(metadata) THEN JsonDumps(metadata) ELSE NULL,
     created_at    |-> created_at]

\* Fault: the foreign key to sessions is not enforced
InsertAccepted_NoForeignKey(ss, session_id, role, content) ==
    /\ role \in Roles
    /\ content # NoneStr

\* The insert satisfies the table's constraints: the foreign key to sessions,
\* the role enum and NOT NULL on content
InsertAccepted(ss, session_id, role, content) ==
    /\ SessionExists(ss, session_id)
    /\ role \in Roles
    /\ content # NoneStr

\* The timestamps one add_message can take: the clock is read once the
\* statement is flushed, and may have moved on since the last write
Timestamps == now..Min(now + 1, MaxClock)

\* Fault: the new row takes the place of the newest row
Insert_Replace(msgs, row) ==
    IF msgs = <<>> THEN <<row>> ELSE [msgs EXCEPT ![Len(msgs)] = row]

\* db.add(msg): the table with the new row
Insert(msgs, row) == Append(msgs, row)

\* Fault: the row is inserted and the session left as it was
add_message_NoTouch(session_id, role, content, metadata, t) ==
    /\ messages' = Insert(messages,
                          ChatMessage(messages, session_id, role, content, metadata, t))
    /\ sessions' = sessions
    /\ now' = t

\* add_message, committed: the row is inserted and the session touched
add_message(session_id, role, content, metadata, t) ==
    /\ messages' = Insert(messages,
                          ChatMessage(messages, session_id, role, content, metadata, t))
    /\ sessions' = {IF s.id = session_id THEN [s EXCEPT !.updated_at = t] ELSE s :
                        s \in sessions}
    /\ now' = t

\* The ids of the rows of one session
\* Fault: the filter on session_id is left out
RowsOf_AnySession(msgs, session_id) == 1..Len(msgs)

\* WHERE session_id = :session_id, as row numbers
RowsOf(msgs, session_id) == {i \in 1..Len(msgs) : msgs[i].session_id = session_id}

Perms(S) ==
    {f \in [1..Cardinality(S) -> S] : \A i, j \in 1..Cardinality(S) : f[i] = f[j] => i = j}

\* Fault: ORDER BY created_at ASC, the oldest rows first
OrderByCreatedDesc_Asc(msgs, S) ==
    {f \in Perms(S) : \A i, j \in 1..Cardinality(S) :
        i < j => msgs[f[i]].created_at <= msgs[f[j]].created_at}

\* ORDER BY created_at DESC: every order of the rows that is sorted by
\* created_at, newest first; rows with equal created_at come in any order
OrderByCreatedDesc(msgs, S) ==
    {f \in Perms(S) : \A i, j \in 1..Cardinality(S) :
        i < j => msgs[f[i]].created_at >= msgs[f[j]].created_at}

Reverse(s) == [i \in 1..Len(s) |-> s[Len(s) + 1 - i]]

\* Fault: the newest row is skipped (OFFSET 1)
get_recent_messages_Offset(msgs, session_id, limit) ==
    {LET rows == SubSeq(f, 2, Min(limit + 1, Len(f)))
         chron == Reverse(rows)
     IN  [i \in 1..Len(chron) |->
            [role |-> msgs[chron[i]].role, content |-> msgs[chron[i]].content]] :
        f \in OrderByCreatedDesc(msgs, RowsOf(msgs, session_id))}

\* get_recent_messages: the results the query can give
get_recent_messages(msgs, session_id, limit) ==
    {LET rows == SubSeq(f, 1, Min(limit, Len(f)))
         chron == Reverse(rows)
     IN  [i \in 1..Len(chron) |->
            [role |-> msgs[chron[i]].role, content |-> msgs[chron[i]].content]] :
        f \in OrderByCreatedDesc(msgs, RowsOf(msgs, session_id))}

\* ORDER BY created_at ASC: every order of the rows that is sorted by
\* created_at, oldest first; rows with equal created_at come in any order
OrderByCreatedAsc(msgs, S) ==
    {f \in Perms(S) : \A i, j \in 1..Cardinality(S) :
        i < j => msgs[f[i]].created_at <= msgs[f[j]].created_at}

\* get_session_history: the results the query can give
get_session_history(msgs, session_id) ==
    {[i \in 1..Len(f) |->
        [id         |-> msgs[f[i]].id,
         role       |-> msgs[f[i]].role,
         content    |-> msgs[f[i]].content,
         metadata   |-> MetadataOf(msgs[f[i]]),
         created_at |-> msgs[f[i]].created_at]] :
        f \in OrderByCreatedAsc(msgs, RowsOf(msgs, session_id))}

(***************************************************************************)
(* The vector store (task2_vector_db.py).                                  *)
(***************************************************************************)
Callers == {"k1", "k2"}                 \* calls of query_vector_db in flight

\* chunk_text(load_text(file)) for the files a data directory can hold
FileChunks ==
    [a |-> <<"a0", "a1">>,              \* a.txt
     b |-> <<"b0">>,                    \* b.txt
     g |-> <<"g0">>]                    \* the scraped default article

\* What DATA_DIR holds when the first query arrives
DataDirs == {{}, {"a"}, {"a", "b"}}

\* No collection of the configured name; gen counts the collections created
NoCollection == [exists |-> FALSE, gen |-> 0, docs |-> {}]

\* The ids, documents and metadatas create_vector_db passes to collection.add
Documents(chunks, source_file) ==
    {[id |-> i - 1, text |-> chunks[i], source |-> source_file, chunk_index |-> i - 1] :
        i \in 1..Len(chunks)}

\* A collection handle is the identity of the collection it was obtained
\* for; it is stale once that collection has been deleted
Stale(handle) == ~chroma.exists \/ chroma.gen # handle

NoQuery ==
    [pc      |-> "start",
     missing |-> FALSE,     \* the first get_collection found no collection
     handle  |-> 0,
     files   |-> <<>>,      \* txt_files not yet processed
     chunks  |-> <<>>,
     source  |-> "",
     inited  |-> FALSE,     \* _auto_initialize_vector_db has returned
     seen    |-> {},        \* the documents of the collection when it was queried
     output  |-> {},
     exc     |-> ""]

QueryGoto(k, q, label) == query' = [query EXCEPT ![k] = [q EXCEPT !.pc = label]]

QueryRaise(k, q, exc) == query' = [query EXCEPT ![k] = [q EXCEPT !.pc = "done", !.exc = exc]]

\* query_vector_db: client.get_collection, first try
vq_get_collection(k) ==
    /\ query[k].pc = "start"
    /\ IF chroma.exists
       THEN QueryGoto(k, [query[k] EXCEPT !.handle = chroma.gen], "query")
       ELSE QueryGoto(k, [query[k] EXCEPT !.missing = TRUE], "auto_init")
    /\ UNCHANGED <<data_dir, chroma, server>>

\* _auto_initialize_vector_db: list the .txt files, scrape one if there is none
vq_auto_initialize(k) ==
    /\ query[k].pc = "auto_init"
    /\ IF data_dir = {}
       THEN \/ /\ data_dir' = {"g"}
               /\ QueryGoto(k, [query[k] EXCEPT !.files = <<"g">>], "next_file")
            \/ /\ QueryRaise(k, query[k], "ScrapeError")
               /\ UNCHANGED data_dir
       ELSE /\ \E txt_files \in Perms(data_dir) :
                    QueryGoto(k, [query[k] EXCEPT !.files = txt_files], "next_file")
            /\ UNCHANGED data_dir
    /\ UNCHANGED <<chroma, server>>

\* _auto_initialize_vector_db: the loop over txt_files, load_text and chunk_text
vq_next_file(k) ==
    /\ query[k].pc = "next_file"
    /\ LET q == query[k]
       IN  IF q.files = <<>>
           THEN QueryGoto(k, [q EXCEPT !.inited = TRUE], "retry_get")
           ELSE QueryGoto(k, [q EXCEPT !.files = Tail(q.files),
                                       !.source = Head(q.files),
                                       !.chunks = FileChunks[Head(q.files)]], "delete")
    /\ UNCHANGED <<data_dir, chroma, server>>

\* create_vector_db: client.delete_collection, "not found" passed over
vq_delete_collection(k) ==
    /\ query[k].pc = "delete"
    /\ chroma' = [chroma EXCEPT !.exists = FALSE, !.docs = {}]
    /\ QueryGoto(k, query[k], "create")
    /\ UNCHANGED <<data_dir, server>>

\* create_vector_db: client.get_or_create_collection
vq_get_or_create_collection(k) ==
    /\ query[k].pc = "create"
    /\ IF chroma.exists
       THEN /\ QueryGoto(k, [query[k] EXCEPT !.handle = chroma.gen], "add")
            /\ UNCHANGED chroma
       ELSE /\ chroma' = [exists |-> TRUE, gen |-> chroma.gen + 1, docs |-> {}]
            /\ QueryGoto(k, [query[k] EXCEPT !.handle = chroma.gen + 1], "add")
    /\ UNCHANGED <<data_dir, server>>

\* create_vector_db: collection.add.  An id the collection already holds is
\* skipped or rejected, depending on the ChromaDB version
vq_add(k) ==
    /\ query[k].pc = "add"
    /\ LET q == query[k]
           docs == Documents(q.chunks, q.source)
           held == {d.id : d \in chroma.docs}
       IN  IF Stale(q.handle)
           THEN QueryRaise(k, q, "collection does not exist") /\ UNCHANGED chroma
           ELSE \/ /\ chroma' = [chroma EXCEPT !.docs = @ \cup {d \in docs : d.id \notin held}]
                   /\ QueryGoto(k, q, "next_file")
                \/ /\ \E d \in docs : d.id \in held
                   /\ QueryRaise(k, q, "DuplicateIDError")
                   /\ UNCHANGED chroma
    /\ UNCHANGED <<data_dir, server>>

\* query_vector_db: client.get_collection, retry after initialization
vq_retry_get_collection(k) ==
    /\ query[k].pc = "retry_get"
    /\ IF chroma.exists
       THEN QueryGoto(k, [query[k] EXCEPT !.handle = chroma.gen], "query")
       ELSE QueryRaise(k, query[k], "collection does not exist")
    /\ UNCHANGED <<data_dir, chroma, server>>

\* query_vector_db: collection.query and the output list; which documents
\* are nearest depends on the query text
vq_query(k) ==
    /\ query[k].pc = "query"
    /\ LET q == query[k]
           n == Min(TOP_K_RETRIEVAL, Cardinality(chroma.docs))
       IN  IF Stale(q.handle)
           THEN QueryRaise(k, q, "collection does not exist")
           ELSE \E output \in SUBSET chroma.docs :
                    /\ Cardinality(output) = n
                    /\ QueryGoto(k, [q EXCEPT !.seen = chroma.docs,
                                              !.output = output], "done")
    /\ UNCHANGED <<data_dir, chroma, server>>

VectorNext ==
    \/ \E k \in Callers : vq_get_collection(k)
    \/ \E k \in Callers : vq_auto_initialize(k)
    \/ \E k \in Callers : vq_next_file(k)
    \/ \E k \in Callers : vq_delete_collection(k)
    \/ \E k \in Callers : vq_get_or_create_collection(k)
    \/ \E k \in Callers : vq_add(k)
    \/ \E k \in Callers : vq_retry_get_collection(k)
    \/ \E k \in Callers : vq_query(k)

(***************************************************************************)
(* Request frames.                                                         *)
(***************************************************************************)
Unset  == "<unset>"
Raises == "<raises>"

NoResponse == [status |-> 0, answer |-> NoneStr, source |-> "", detail |-> ""]

\* No call of ChatDatabase made yet by a direct user
NoCall == [op |-> "none"]

\* No return value: the engine has not returned
NoRunResult == [none |-> TRUE]

InitFrame ==
    [kind            |-> "",        \* "text" (run_text), "audio" (run), or a read endpoint
     session_id      |-> "",
     question        |-> "",        \* message (run_text) / translation (run)
     transcription   |-> "",
     source_language |-> "",
     history         |-> <<>>,
     raw             |-> Unset,     \* what the phase-1 completion carried
     result          |-> NoResult,  \* what try_answer_from_history returned
     answer          |-> NoneStr,
     source          |-> "",
     chunks          |-> None,
     raw2            |-> Unset,     \* what the phase-2 completion carried
     run_result      |-> NoRunResult,   \* what run / run_text returned
     body            |-> <<>>,      \* the list a read endpoint returns
     calls           |-> <<>>,      \* collaborator calls issued, in order
     appended        |-> <<>>,      \* ids add_message returned to this request
     rows_before     |-> 0,         \* rows in the messages table when the engine was called
     response        |-> NoResponse]

Active == {r \in Requests : pc[r] \notin {"idle", "done"}}

\* Room in the messages table for one more request's exchange
HasRoom == Len(messages) + 2 * Cardinality(Active) + 2 <= MaxMessages


\* Fault: a failed collaborator call is tried again
Leave_Retry(at) == IF at \in {"try_history", "retrieve"} THEN at ELSE "done"

\* Where a handler goes when it returns or an exception leaves it: the
\* exception is turned into an error response, nothing is run again
Leave(at) == "done"

\* Leave the handler with an HTTP response
Respond(r, f, status, detail) ==
    /\ frame' = [frame EXCEPT ![r] =
                    [f EXCEPT !.response = [status |-> status,
                                            answer |-> IF status = 200 THEN f.answer ELSE NoneStr,
                                            source |-> IF status = 200 THEN f.source ELSE "",
                                            detail |-> detail]]]
    /\ pc' = [pc EXCEPT ![r] = Leave(pc[r])]

\* Go on to the next step of the handler
Goto(r, f, label) ==
    /\ frame' = [frame EXCEPT ![r] = f]
    /\ pc' = [pc EXCEPT ![r] = label]

\* The server after startup
InitServer ==
    /\ sessions = {}
    /\ messages = <<>>
    /\ now = 0
    /\ GROQ_API_KEY \in BOOLEAN
    /\ client = FALSE
    /\ pc = [r \in Requests |-> "idle"]
    /\ frame = [r \in Requests |-> InitFrame]
    /\ last = NoCall

\* The vector store before the first query: no collection yet
InitVector(dirs) ==
    /\ data_dir \in dirs
    /\ chroma = NoCollection
    /\ query = [k \in Callers |-> NoQuery]

\* A fresh checkout: DATA_DIR holds no file
Init == InitServer /\ InitVector({{}})

\* The first queries against a data directory of any content
VectorInit == InitServer /\ InitVector(DataDirs)

VectorSpec == VectorInit /\ [][VectorNext]_vars

(***************************************************************************)
(* Request surface (api_server.py).                                        *)
(***************************************************************************)
\* Values of the session_id field of a payload; NoneStr is a payload without it
PayloadSessionIds == {NoneStr, "", SessionIds[1], SessionIds[2]}

\* Values of the message field of a payload, before strip()
PayloadMessages == {"", " ", " q1"}

\* Fault: only an absent value counts as missing, an empty string passes
TruthyStr_NotNone(x) == x # NoneStr

\* Python truthiness of an optional string
TruthyStr(x) == x # NoneStr /\ x # ""

\* POST /api/session
create_session ==
    /\ Active = {}
    /\ \E k \in 1..Len(SessionIds) :
        /\ Cardinality(sessions) = k - 1
        /\ \E t \in now..Min(now + 1, MaxClock) :
            /\ sessions' = sessions \cup
                   {[id |-> SessionIds[k], created_at |-> t, updated_at |-> t]}
            /\ now' = t
    /\ UNCHANGED <<messages, GROQ_API_KEY, vector, last, client, pc, frame>>

\* POST /api/chat, up to the call of bot.run_text; room bounds the table
chat_text_when(r, room) ==
    /\ pc[r] = "idle"
    /\ \E session_id \in PayloadSessionIds, payload_message \in PayloadMessages :
        LET message == Strip(payload_message)
            rejected == [InitFrame EXCEPT !.kind = "text"]
            f == [rejected EXCEPT !.session_id = session_id,
                                  !.question = message,
                                  !.rows_before = Len(messages)]
        IN  IF ~TruthyStr(session_id)
            THEN Respond(r, rejected, 400, "session_id is required")
            ELSE IF ~TruthyStr(message)
            THEN Respond(r, rejected, 400, "message is required")
            ELSE room /\ Goto(r, f, "get_history")
    /\ UNCHANGED <<sessions, messages, now, GROQ_API_KEY, vector, last, client>>

\* POST /api/chat on the server's one event loop
chat_text(r) == chat_text_when(r, HasRoom)

\* POST /api/chat/audio, up to the call of bot.run
chat_audio(r) ==
    /\ pc[r] = "idle"
    /\ \E session_id \in PayloadSessionIds \ {NoneStr}, language \in Languages,
          audio_empty \in BOOLEAN :
        LET rejected == [InitFrame EXCEPT !.kind = "audio"]
            f == [rejected EXCEPT !.session_id = session_id,
                                  !.source_language = language,
                                  !.rows_before = Len(messages)]
        IN  IF ~TruthyStr(session_id)
            THEN Respond(r, rejected, 400, "session_id is required")
            ELSE IF audio_empty
            THEN Respond(r, rejected, 400, "Audio file is empty")
            ELSE HasRoom /\ Goto(r, f, "transcribe")
    /\ UNCHANGED <<sessions, messages, now, GROQ_API_KEY, vector, last, client>>

\* ORDER BY updated_at DESC: every order of the sessions that is sorted by
\* updated_at, newest first
OrderByUpdatedDesc(ss) ==
    {f \in Perms(ss) : \A i, j \in 1..Cardinality(ss) :
        i < j => f[i].updated_at >= f[j].updated_at}

\* last_msg.content[:60]; the contents of the model are shorter than that
Preview(content) == content

\* The previews list_sessions can show for a session: "" without messages,
\* else the content of the row its newest-first query puts first
LastMessages(msgs, session_id) ==
    IF RowsOf(msgs, session_id) = {}
    THEN {""}
    ELSE {Preview(msgs[f[1]].content) :
            f \in OrderByCreatedDesc(msgs, RowsOf(msgs, session_id))}

\* GET /api/sessions
list_sessions(r) ==
    /\ pc[r] = "idle"
    /\ LET f == [InitFrame EXCEPT !.kind = "sessions"]
       IN  \/ \E order \in OrderByUpdatedDesc(sessions) :
              \E previews \in [1..Len(order) ->
                                UNION {LastMessages(messages, s.id) : s \in sessions}] :
                /\ \A i \in 1..Len(order) :
                        previews[i] \in LastMessages(messages, order[i].id)
                /\ Respond(r, [f EXCEPT !.body =
                        [i \in 1..Len(order) |->
                            [id          |-> order[i].id,
                             title       |-> "",
                             lastMessage |-> previews[i],
                             created_at  |-> order[i].created_at,
                             updated_at  |-> order[i].updated_at]]], 200, "")
           \/ Respond(r, f, 500, "OperationalError")
    /\ UNCHANGED <<sessions, messages, now, GROQ_API_KEY, vector, last, client>>

\* GET /api/session/{session_id}/history
api_get_session_history(r) ==
    /\ pc[r] = "idle"
    /\ \E session_id \in {SessionIds[k] : k \in 1..Len(SessionIds)} :
        LET f == [InitFrame EXCEPT !.kind = "history"]
        IN  \/ \E history \in get_session_history(messages, session_id) :
                Respond(r, [f EXCEPT !.session_id = session_id, !.body = history],
                        200, "")
            \/ Respond(r, f, 500, "OperationalError")
    /\ UNCHANGED <<sessions, messages, now, GROQ_API_KEY, vector, last, client>>

\* The handler has returned; the slot serves the next request
Finish(r) ==
    /\ pc[r] = "done"
    /\ pc' = [pc EXCEPT ![r] = "idle"]
    /\ frame' = [frame EXCEPT ![r] = InitFrame]
    /\ UNCHANGED <<sessions, messages, now, GROQ_API_KEY, vector, last, client>>

(***************************************************************************)
(* Pipeline adapters (task5_rag_pipeline.py).                              *)
(***************************************************************************)
Transcripts  == {"t1"}          \* what the ASR server transcribes
Translations == {"q1"}          \* what the translation service returns

\* Fault: no tag is taken for English
StartsWithEn_Never(language) == FALSE

\* str.startswith("en") on the language tags
StartsWithEn(language) == language \in {"en-US"}

\* Fault: an empty transcript is passed on
EmptyTranscript_Accepted(transcription) == FALSE

\* "if not transcription": the ASR server answered with no text
EmptyTranscript(transcription) == transcription = ""

\* step1_transcribe: the transcript; Raises when the server cannot be reached
\* or answers with an error; an empty transcript is raised as an error too
step1_transcribe(r) ==
    /\ pc[r] = "transcribe"
    /\ \E out \in Transcripts \cup {"", Raises} :
        LET f == [frame[r] EXCEPT !.calls = Append(@, "transcribe")]
        IN  IF out = Raises \/ EmptyTranscript(out)
            THEN Respond(r, f, 500, "RuntimeError: ASR")
            ELSE Goto(r, [f EXCEPT !.transcription = out], "translate")
    /\ UNCHANGED <<sessions, messages, now, GROQ_API_KEY, vector, last, client>>

\* step2_translate: unchanged text for English, else translate_to_english
step2_translate(r) ==
    /\ pc[r] = "translate"
    /\ LET f == frame[r]
       IN  IF StartsWithEn(f.source_language)
           THEN Goto(r, [f EXCEPT !.question = f.transcription], "get_history")
           ELSE \E out \in Translations \cup {Raises} :
                LET g == [f EXCEPT !.calls = Append(@, "translate")]
                IN  IF out = Raises
                    THEN Respond(r, g, 500, "RuntimeError: translation")
                    ELSE Goto(r, [g EXCEPT !.question = out], "get_history")
    /\ UNCHANGED <<sessions, messages, now, GROQ_API_KEY, vector, last, client>>

(***************************************************************************)
(* Answer-decision engine (chatbot.py).                                    *)
(***************************************************************************)
\* What the phase-1 completion carries: a text, no content (None), or the
\* call raises
Phase1Completions == RawTexts \cup {NoneStr, Raises}

\* What the phase-2 completion carries.  The texts of phase 2 are disjoint
\* from the contents of phase 1, so an answer shows which call produced it.
Phase2Answers     == {"v1"}
Phase2Completions == Phase2Answers \cup {NoneStr, Raises}

RaisesSeq == <<Raises>>

\* step3_retrieve: the top_k nearest chunks in rank order, or none when the
\* collection is empty
RetrievalResults(top_k) == {<<>>, SubSeq(Ranking, 1, Min(top_k, Len(Ranking)))}

LLM_ERROR == "RuntimeError: LLM error"

\* Faults of the empty-window check: never taken, always taken
HistoryIsEmpty_Never(history)  == FALSE
HistoryIsEmpty_Always(history) == TRUE

\* "if not history": phase 1 is skipped for an empty window
HistoryIsEmpty(history) == history = <<>>

\* Fault: a decode error is re-raised like any other exception
OnJSONDecodeError_Raises == [issued |-> TRUE, exc |-> LLM_ERROR, result |-> NoResult]

\* The "except json.JSONDecodeError" branch: what it returns
OnJSONDecodeError == [issued |-> TRUE, exc |-> "", result |-> NEED_MORE_CONTEXT]

\* Fault: an exception of the call is taken for "insufficient context"
OnException_Soft(issued) == [issued |-> issued, exc |-> "", result |-> NEED_MORE_CONTEXT]

\* The "except Exception" branch: the error is re-raised with the engine's label
OnException(issued) == [issued |-> issued, exc |-> LLM_ERROR, result |-> NoResult]

\* Fault: only the status field is looked for
MissingField_StatusOnly(v) == ~In("status", v)

\* "status" not in result or "content" not in result
MissingField(v) == ~In("status", v) \/ ~In("content", v)

\* try_answer_from_history: issued tells whether the generation call was
\* sent, exc is what the function raises ("" if nothing), result what it returns
try_answer_from_history(history, key, completion) ==
    IF HistoryIsEmpty(history)
    THEN [issued |-> FALSE, exc |-> "", result |-> NEED_MORE_CONTEXT]
    ELSE IF ~key
    THEN OnException(FALSE)                     \* _get_client raises ValueError
    ELSE IF completion = Raises
    THEN OnException(TRUE)                      \* the service call raises
    ELSE IF completion = NoneStr
    THEN OnException(TRUE)                      \* None.strip(): AttributeError
    ELSE LET parsed == JsonLoads(Strip(completion))
         IN  IF ~parsed.ok
             THEN OnJSONDecodeError
             ELSE IF ~SupportsIn(parsed.value)
             THEN OnException(TRUE)             \* "status" in 42: TypeError
             ELSE IF MissingField(parsed.value)
             THEN [issued |-> TRUE, exc |-> "", result |-> NEED_MORE_CONTEXT]
             ELSE [issued |-> TRUE, exc |-> "", result |-> parsed.value]

\* Faults of the branch: another spelling of the status, anything but failure
IsSuccess_Capitalised(result) == result.status = "Success"
IsSuccess_NotFailure(result)  == result.status # "failure"

\* The branch of run / run_text on the phase-1 result
IsSuccess(result) == result.status = "success"

\* Fault: the number of chunks asked for instead of the number returned
ChunksUsed_TopK(chunks) == IF chunks = None THEN 0 ELSE TOP_K_RETRIEVAL

\* len(chunks) if chunks else 0
ChunksUsed(chunks) == IF chunks = None \/ chunks = <<>> THEN 0 ELSE Len(chunks)

\* _format_history: one line per turn, "User: ..." or "Assistant: ..."
FormatHistory(history) ==
    [i \in 1..Len(history) |->
        <<IF history[i].role = "user" THEN "User" ELSE "Assistant",
          history[i].content>>]

\* Fault: the first n turns are taken
LastTurns_Head(history, n) == SubSeq(history, 1, Min(n, Len(history)))

\* history[-n:]
LastTurns(history, n) ==
    SubSeq(history, Len(history) - Min(n, Len(history)) + 1, Len(history))

\* The user prompt of phase 2: the "Recent conversation" section (absent for
\* an empty history), the chunks labelled "[Chunk i]" by enumerate(), and the
\* question
RetrievalPrompt(question, history, chunks) ==
    [history_section |-> history # <<>>,
     turns           |-> IF history # <<>>
                         THEN FormatHistory(LastTurns(history, PROMPT_TURNS))
                         ELSE <<>>,
     context         |-> [i \in 1..Len(chunks) |-> <<i, chunks[i]>>],
     question        |-> question]

\* Step "get sliding window" of run / run_text
GetHistory(r) ==
    /\ pc[r] = "get_history"
    /\ \/ \E history \in get_recent_messages(messages, frame[r].session_id,
                                             SLIDING_WINDOW_SIZE) :
            Goto(r, [frame[r] EXCEPT !.history = history], "try_history")
       \/ Respond(r, frame[r], 500, "OperationalError")
    /\ UNCHANGED <<sessions, messages, now, GROQ_API_KEY, vector, last, client>>

\* Step "try answering from history" of run / run_text, with the branch on
\* its result
TryHistory(r) ==
    /\ pc[r] = "try_history"
    /\ \E completion \in Phase1Completions \cup {Unset} :
        LET f == frame[r]
            out == try_answer_from_history(f.history, GROQ_API_KEY, completion)
            g == [f EXCEPT !.raw = completion,
                           !.result = out.result,
                           !.calls = IF out.issued THEN Append(@, "phase1") ELSE @]
        IN  /\ out.issued <=> completion # Unset
            /\ client' = (client \/ out.issued)
            /\ IF out.exc # ""
               THEN Respond(r, g, 500, out.exc)
               ELSE IF ~SupportsKey(out.result)
               THEN Respond(r, g, 500, "TypeError")
               ELSE IF IsSuccess(out.result)
               THEN Goto(r, [g EXCEPT !.answer = out.result.content,
                                      !.source = "history",
                                      !.chunks = None], "persist_user")
               ELSE Goto(r, g, "retrieve")
    /\ UNCHANGED <<sessions, messages, now, GROQ_API_KEY, vector, last>>

\* answer_with_retrieval and the assignments that follow it in run / run_text
AnswerWithRetrieval(r) ==
    /\ pc[r] = "retrieve"
    /\ \E chunks \in RetrievalResults(TOP_K_RETRIEVAL) \cup {RaisesSeq} :
        LET f == [frame[r] EXCEPT !.calls = Append(@, "retrieve")]
        IN  IF chunks = RaisesSeq
            THEN Respond(r, f, 500, "RetrievalError") /\ UNCHANGED client
            ELSE IF ~GROQ_API_KEY
            THEN Respond(r, f, 500, "ValueError: GROQ_API_KEY not set") /\ UNCHANGED client
            ELSE /\ client' = TRUE
                 /\ \E completion \in Phase2Completions :
                     LET g == [f EXCEPT !.calls = Append(@, "phase2"),
                                        !.raw2 = completion]
                     IN  IF completion = Raises
                         THEN Respond(r, g, 500, "APIError")
                         ELSE IF completion = NoneStr
                         THEN Respond(r, g, 500, "AttributeError")
                         ELSE Goto(r, [g EXCEPT !.answer = Strip(completion),
                                                !.source = "vectordb",
                                                !.chunks = chunks], "persist_user")
    /\ UNCHANGED <<sessions, messages, now, GROQ_API_KEY, vector, last>>

\* Fault: the transcript is stored in place of the question
UserContent_Transcription(f) == f.transcription

\* The content of the user message: message (run_text), translation (run)
UserContent(f) == f.question

\* The metadata of the user message
UserMetadata(f) ==
    IF f.kind = "text"
    THEN [input_type |-> "text"]
    ELSE [transcription |-> f.transcription, source_language |-> f.source_language]

\* The metadata of the assistant message
AssistantMetadata(f) ==
    [source |-> f.source, chunks_used |-> ChunksUsed(f.chunks)]

\* Fault: the chunk list is left out of the result
RunResult_NoChunks(f) ==
    IF f.kind = "text"
    THEN [answer |-> f.answer, source |-> f.source, retrieved_chunks |-> None]
    ELSE [transcription |-> f.transcription, translation |-> f.question,
          answer |-> f.answer, source |-> f.source, retrieved_chunks |-> None]

\* The dict run_text / run returns
RunResult(f) ==
    IF f.kind = "text"
    THEN [answer |-> f.answer, source |-> f.source, retrieved_chunks |-> f.chunks]
    ELSE [transcription |-> f.transcription, translation |-> f.question,
          answer |-> f.answer, source |-> f.source, retrieved_chunks |-> f.chunks]

\* Step "persist messages", first add_message
PersistUser(r) ==
    /\ pc[r] = "persist_user"
    /\ LET f == frame[r]
       IN  \/ /\ InsertAccepted(sessions, f.session_id, "user", UserContent(f))
              /\ \E t \in Timestamps :
                    add_message(f.session_id, "user", UserContent(f), UserMetadata(f), t)
              /\ Goto(r, [f EXCEPT !.appended = Append(@, Len(messages) + 1)],
                      "persist_assistant")
           \/ /\ ~InsertAccepted(sessions, f.session_id, "user", UserContent(f))
              /\ Respond(r, f, 500, "IntegrityError")
              /\ UNCHANGED <<sessions, messages, now>>
           \/ /\ Respond(r, f, 500, "OperationalError")
              /\ UNCHANGED <<sessions, messages, now>>
    /\ UNCHANGED <<GROQ_API_KEY, vector, last, client>>

\* Step "persist messages", second add_message, and the return
PersistAssistant(r) ==
    /\ pc[r] = "persist_assistant"
    /\ LET f == frame[r]
       IN  \/ /\ InsertAccepted(sessions, f.session_id, "assistant", f.answer)
              /\ \E t \in Timestamps :
                    add_message(f.session_id, "assistant", f.answer,
                                AssistantMetadata(f), t)
              /\ Respond(r, [f EXCEPT !.appended = Append(@, Len(messages) + 1),
                                       !.run_result = RunResult(f)],
                         200, "")
           \/ /\ ~InsertAccepted(sessions, f.session_id, "assistant", f.answer)
              /\ Respond(r, f, 500, "IntegrityError")
              /\ UNCHANGED <<sessions, messages, now>>
           \/ /\ Respond(r, f, 500, "OperationalError")
              /\ UNCHANGED <<sessions, messages, now>>
    /\ UNCHANGED <<GROQ_API_KEY, vector, last, client>>

\* The handlers are coroutines that never yield while the engine runs, so
\* the server process runs one handler at a time, from its call to its return
Next ==
    \/ create_session
    \/ \E r \in Loop : chat_text(r)
    \/ \E r \in Loop : chat_audio(r)
    \/ \E r \in Loop : step1_transcribe(r)
    \/ \E r \in Loop : step2_translate(r)
    \/ \E r \in Loop : GetHistory(r)
    \/ \E r \in Loop : TryHistory(r)
    \/ \E r \in Loop : AnswerWithRetrieval(r)
    \/ \E r \in Loop : PersistUser(r)
    \/ \E r \in Loop : PersistAssistant(r)
    \/ \E r \in Loop : Finish(r)

Spec == Init /\ [][Next]_vars

\* The server with its read endpoints
ServerNext ==
    \/ Next
    \/ \E r \in Loop : list_sessions(r)
    \/ \E r \in Loop : api_get_session_history(r)

ServerSpec == Init /\ [][ServerNext]_vars

(***************************************************************************)
(* Several server processes on one database (uvicorn --workers, or several *)
(* instances): each process runs its handler from call to return, the      *)
(* processes interleave at their database and service calls.  Each of the  *)
(* two slots is a process that serves one text request.                    *)
(***************************************************************************)
ConcurrentNext ==
    \/ create_session
    \/ \E r \in Requests : chat_text_when(r, TRUE)
    \/ \E r \in Requests : GetHistory(r)
    \/ \E r \in Requests : TryHistory(r)
    \/ \E r \in Requests : AnswerWithRetrieval(r)
    \/ \E r \in Requests : PersistUser(r)
    \/ \E r \in Requests : PersistAssistant(r)

ConcurrentSpec == Init /\ [][ConcurrentNext]_vars

(***************************************************************************)
(* ChatDatabase used directly (chat_db.py, as in the module's usage         *)
(* notes): a caller creates sessions, appends messages of its own and      *)
(* reads them back.                                                        *)
(***************************************************************************)
\* The role, content and metadata arguments of the add_message calls: no
\* metadata, a dict, an empty dict, a dict with the int key 1
MessageArgs ==
    {[role |-> "user",      content |-> "m1", metadata |-> NoMetadata],
     [role |-> "assistant", content |-> "m2", metadata |-> [a |-> 1]],
     [role |-> "user",      content |-> "m3", metadata |-> <<>>],
     [role |-> "assistant", content |-> "m4", metadata |-> ("#1" :> "a")]}

\* The session_id arguments: ids create_session has returned or will return
SessionArgs == {SessionIds[k] : k \in 1..Len(SessionIds)}

\* The limit arguments: a window of one message, and the engine's window
LimitArgs == {1, SLIDING_WINDOW_SIZE}

\* db.add_message(session_id, role, content, metadata)
db_add_message ==
    /\ Active = {}
    /\ Len(messages) < MaxAppends
    /\ \E session_id \in SessionArgs, m \in MessageArgs :
        LET call == [op         |-> "add_message",
                     session_id |-> session_id,
                     role       |-> m.role,
                     content    |-> m.content,
                     metadata   |-> m.metadata]
        IN  IF InsertAccepted(sessions, session_id, m.role, m.content)
            THEN /\ \E t \in Timestamps :
                        add_message(session_id, m.role, m.content, m.metadata, t)
                 /\ last' = call @@ [id |-> Len(messages) + 1, exc |-> ""]
            ELSE /\ UNCHANGED <<sessions, messages, now>>
                 /\ last' = call @@ [id |-> 0, exc |-> "IntegrityError"]
    /\ UNCHANGED <<GROQ_API_KEY, vector, client, pc, frame>>

\* db.get_recent_messages(session_id, limit)
db_get_recent_messages ==
    /\ Active = {}
    /\ \E session_id \in SessionArgs, limit \in LimitArgs :
        \E window \in get_recent_messages(messages, session_id, limit) :
            last' = [op         |-> "get_recent_messages",
                     session_id |-> session_id,
                     limit      |-> limit,
                     window     |-> window]
    /\ UNCHANGED <<sessions, messages, now, GROQ_API_KEY, vector, client, pc, frame>>

\* db.get_session_history(session_id)
db_get_session_history ==
    /\ Active = {}
    /\ \E session_id \in SessionArgs :
        \E history \in get_session_history(messages, session_id) :
            last' = [op         |-> "get_session_history",
                     session_id |-> session_id,
                     history    |-> history]
    /\ UNCHANGED <<sessions, messages, now, GROQ_API_KEY, vector, client, pc, frame>>

StoreNext ==
    \/ create_session
    \/ db_add_message
    \/ db_get_recent_messages
    \/ db_get_session_history

StoreSpec == Init /\ [][StoreNext]_vars

(***************************************************************************)
(* VoiceChatbot used directly: a caller hands answer_with_retrieval a      *)
(* question and a history of its own.                                      *)
(***************************************************************************)
\* The history arguments: the caller keeps a list of its own, empty at
\* first and one turn of either role longer with each call, up to MaxTurns
\* turns; the content of a turn tells its place in the list
HistoryArgs ==
    IF last = NoCall
    THEN {<<>>}
    ELSE {Append(last.history, [role |-> role, content |-> ToString(Len(last.history) + 1)]) :
            role \in IF Len(last.history) < MaxTurns THEN Roles ELSE {}}

\* bot.answer_with_retrieval(question, history), top_k left at its default
bot_answer_with_retrieval ==
    /\ Active = {}
    /\ \E question \in Translations, history \in HistoryArgs,
          chunks \in RetrievalResults(TOP_K_RETRIEVAL) \cup {RaisesSeq},
          completion \in Phase2Completions :
        LET call == [op       |-> "answer_with_retrieval",
                     question |-> question,
                     history  |-> history,
                     top_k    |-> TOP_K_RETRIEVAL]
        IN  IF chunks = RaisesSeq
            THEN /\ last' = call @@ [exc |-> "RetrievalError"]
                 /\ UNCHANGED client
            ELSE LET built == call @@ [chunks |-> chunks,
                                       prompt |-> RetrievalPrompt(question, history, chunks)]
                 IN  IF ~GROQ_API_KEY
                     THEN /\ last' = built @@ [exc |-> "ValueError: GROQ_API_KEY not set"]
                          /\ UNCHANGED client
                     ELSE /\ client' = TRUE
                          /\ last' = built @@
                                (IF completion = Raises THEN [exc |-> "APIError"]
                                 ELSE IF completion = NoneStr THEN [exc |-> "AttributeError"]
                                 ELSE [exc |-> "", answer |-> Strip(completion)])
    /\ UNCHANGED <<sessions, messages, now, GROQ_API_KEY, vector, pc, frame>>

EngineNext == bot_answer_with_retrieval

EngineSpec == Init /\ [][EngineNext]_vars

(***************************************************************************)
(* Vocabulary of the properties.                                           *)
(***************************************************************************)
Count(calls, name) == Cardinality({i \in 1..Len(calls) : calls[i] = name})

IsEngineCall(c) == c \in {"phase1", "retrieve", "phase2"}

\* The generation and retrieval calls of a request, in the order issued
EngineCalls(f) == SelectSeq(f.calls, IsEngineCall)

\* r is a chat request
IsChat(r) == frame[r].kind \in {"text", "audio"}

\* The chat handler of r has returned an answer
Returned(r) == IsChat(r) /\ pc[r] = "done" /\ frame[r].response.status = 200

\* The chat handler of r has ended in an error response
Failed(r) == IsChat(r) /\ pc[r] = "done" /\ frame[r].response.status = 500

\* The read endpoint of r has returned
HasRead(r) == frame[r].kind \in {"sessions", "history"} /\ pc[r] = "done"

\* r is past the decision and has an answer to persist or has returned it
HasAnswer(r) == pc[r] \in {"persist_user", "persist_assistant"} \/ Returned(r)

\* r has persisted exactly one exchange: two rows, and the table grew by two
PersistedTwo(r) ==
    /\ Len(frame[r].appended) = 2
    /\ Len(messages) = frame[r].rows_before + 2

\* The phase-1 completion of r carried a text
HasRaw(r) == frame[r].raw \in RawTexts

Parsed(r) == JsonLoads(Strip(frame[r].raw))

\* An error response that phase 1 caused
Phase1Errors == {LLM_ERROR, "TypeError"}

\* The retrieval path as seen from outside: retrieval invoked, then the
\* phase-2 call, source "vectordb", one exchange persisted, and no error
\* out of phase 1
RetrievalOutcome(r) ==
    LET f == frame[r]
    IN  /\ f.result = NEED_MORE_CONTEXT \/ f.result.status # "success"
        /\ pc[r] # "retrieve" => Count(f.calls, "retrieve") = 1
        /\ HasAnswer(r) =>
              /\ EngineCalls(f) = <<"phase1", "retrieve", "phase2">>
              /\ f.source = "vectordb"
              /\ f.answer \in Phase2Answers
        /\ Returned(r) => PersistedTwo(r) /\ f.response.source = "vectordb"
        /\ Failed(r) => f.response.detail \notin Phase1Errors

(***************************************************************************)
(* C1: a request whose fetched history window is empty never issues the    *)
(* phase-1 call; once it has an answer it has called retrieval once and    *)
(* generation once (phase 2), and when it returns it has persisted two     *)
(* messages and its source is "vectordb".                                  *)
(***************************************************************************)
C1_EmptyWindowRetrieves ==
    \A r \in Requests :
        LET f == frame[r]
        IN  f.history = <<>> =>
              /\ Count(f.calls, "phase1") = 0
              /\ HasAnswer(r) =>
                    /\ EngineCalls(f) = <<"retrieve", "phase2">>
                    /\ f.source = "vectordb"
              /\ Returned(r) => PersistedTwo(r) /\ f.response.source = "vectordb"

C1_Witness ==
    \E r \in Requests :
        /\ Returned(r)
        /\ frame[r].kind = "audio"
        /\ frame[r].history = <<>>
        /\ EngineCalls(frame[r]) = <<"retrieve", "phase2">>

(***************************************************************************)
(* C2: a request whose fetched history window is non-empty issues at most  *)
(* one phase-1 call, issues it before any retrieval or phase-2 call, and   *)
(* has issued exactly one once it is past the phase-1 step.                *)
(***************************************************************************)
C2_Phase1OnceAndFirst ==
    \A r \in Requests :
        LET f == frame[r]
        IN  f.history # <<>> =>
              /\ Count(f.calls, "phase1") <= 1
              /\ EngineCalls(f) # <<>> => EngineCalls(f)[1] = "phase1"
              /\ (pc[r] = "retrieve" \/ HasAnswer(r)) => Count(f.calls, "phase1") = 1

C2_Witness ==
    \E r \in Requests :
        /\ Returned(r)
        /\ frame[r].history # <<>>
        /\ EngineCalls(frame[r]) = <<"phase1", "retrieve", "phase2">>

(***************************************************************************)
(* C3: when the phase-1 response is a well-formed object with status       *)
(* "success" and a text content, the request takes the history path: one   *)
(* generation call, no retrieval call, the answer is the phase-1 content;  *)
(* it ends with source "history" and two messages persisted, unless the    *)
(* store fails.                                                            *)
(***************************************************************************)
WellFormedSuccess(r) ==
    /\ HasRaw(r)
    /\ Parsed(r).ok
    /\ Parsed(r).value.type = "dict"
    /\ Parsed(r).value.status = "success"
    /\ Parsed(r).value.content \notin {Absent, NoneStr}

C3_SuccessAnswersFromHistory ==
    \A r \in Requests :
        LET f == frame[r]
        IN  WellFormedSuccess(r) =>
              /\ EngineCalls(f) = <<"phase1">>
              /\ f.source = "history"
              /\ f.answer = Parsed(r).value.content
              /\ f.chunks = None
              /\ pc[r] = "done" =>
                    \/ /\ Returned(r)
                       /\ PersistedTwo(r)
                       /\ f.response.source = "history"
                       /\ f.response.answer = Parsed(r).value.content
                    \/ Failed(r) /\ f.response.detail = "OperationalError"

C3_Witness ==
    \E r \in Requests :
        /\ Returned(r)
        /\ frame[r].raw = RAW_SUCCESS
        /\ frame[r].response.answer = "h1"

(***************************************************************************)
(* C4: a phase-1 response that is an object lacking the status field or    *)
(* the content field has the same outcome as an explicit {status: failure} *)
(* response: the same phase-1 result, retrieval invoked, phase-2 call      *)
(* made, source "vectordb", two messages persisted, no error from phase 1. *)
(***************************************************************************)
LacksField(r) ==
    /\ HasRaw(r)
    /\ Parsed(r).ok
    /\ Parsed(r).value.type = "dict"
    /\ (Parsed(r).value.status = Absent \/ Parsed(r).value.content = Absent)

C4_MissingFieldAsFailure ==
    \A r \in Requests :
        (LacksField(r) \/ frame[r].raw = RAW_FAILURE) =>
            /\ frame[r].result =
                  try_answer_from_history(frame[r].history, GROQ_API_KEY, RAW_FAILURE).result
            /\ RetrievalOutcome(r)

C4_Witness ==
    \E r \in Requests :
        /\ Returned(r)
        /\ frame[r].raw = RAW_NO_CONTENT
        /\ frame[r].source = "vectordb"

(***************************************************************************)
(* C5: when the phase-1 call returns text that is not JSON, the engine     *)
(* raises nothing out of phase 1 and takes the retrieval path: retrieval   *)
(* call, phase-2 call, source "vectordb".                                  *)
(***************************************************************************)
NotJson(r) == HasRaw(r) /\ ~Parsed(r).ok

C5_UnparseableGoesToRetrieval ==
    \A r \in Requests :
        NotJson(r) => frame[r].result = NEED_MORE_CONTEXT /\ RetrievalOutcome(r)

C5_Witness ==
    \E r \in Requests :
        /\ Returned(r)
        /\ frame[r].raw = RAW_PROSE
        /\ frame[r].response.source = "vectordb"

(***************************************************************************)
(* C6: every phase-1 response with a malformed structure (JSON that is not *)
(* an object with status and content: a number, null, a boolean, a list, a *)
(* string; or no text content at all) is treated as failure, raises        *)
(* nothing and proceeds to RETRIEVE.                                       *)
(***************************************************************************)
Malformed(r) ==
    \/ frame[r].raw = NoneStr
    \/ /\ HasRaw(r)
       /\ Parsed(r).ok
       /\ \/ Parsed(r).value.type # "dict"
          \/ Parsed(r).value.status = Absent
          \/ Parsed(r).value.content = Absent

C6_MalformedAsFailure ==
    \A r \in Requests :
        Malformed(r) => frame[r].result = NEED_MORE_CONTEXT /\ RetrievalOutcome(r)

(***************************************************************************)
(* C7: when phase 1 returns a well-formed object whose status is not       *)
(* exactly "success", the engine goes to RETRIEVE: one retrieval call, the *)
(* phase-2 call, source "vectordb"; the answer is the phase-2 text, never  *)
(* the phase-1 content.                                                    *)
(***************************************************************************)
WellFormedNotSuccess(r) ==
    /\ HasRaw(r)
    /\ Parsed(r).ok
    /\ Parsed(r).value.type = "dict"
    /\ Parsed(r).value.status \notin {Absent, "success"}
    /\ Parsed(r).value.content # Absent

C7_NotSuccessGoesToRetrieval ==
    \A r \in Requests :
        LET f == frame[r]
        IN  WellFormedNotSuccess(r) =>
              /\ RetrievalOutcome(r)
              /\ f.source # "history"
              /\ f.answer # Parsed(r).value.content
              /\ \A k \in 1..Len(f.appended) :
                    messages[f.appended[k]].content # Parsed(r).value.content

C7_Witness ==
    \E r \in Requests :
        /\ Returned(r)
        /\ frame[r].raw = RAW_OTHER_STATUS
        /\ frame[r].response.answer = "v1"

(***************************************************************************)
(* C8: a request traverses the state machine once: its generation and      *)
(* retrieval calls are a prefix of phase 1, retrieval, phase 2 (phase 1    *)
(* present exactly when the call was issued), so at most one call of each  *)
(* kind and at most two generation calls, and a request that ended in an   *)
(* error has repeated none.                                                *)
(***************************************************************************)
Traversals ==
    {<<>>, <<"phase1">>, <<"phase1", "retrieve">>, <<"phase1", "retrieve", "phase2">>,
     <<"retrieve">>, <<"retrieve", "phase2">>}

C8_OneTraversal ==
    \A r \in Requests :
        LET f == frame[r]
        IN  /\ EngineCalls(f) \in Traversals
            /\ Count(f.calls, "phase1") + Count(f.calls, "phase2") <= 2
            /\ Count(f.calls, "phase1") <= 1
            /\ Count(f.calls, "phase2") <= 1
            /\ Count(f.calls, "retrieve") <= 1

C8_Witness ==
    \E r \in Requests :
        /\ Failed(r)
        /\ frame[r].response.detail = "APIError"
        /\ EngineCalls(frame[r]) = <<"phase1", "retrieve", "phase2">>

(***************************************************************************)
(* C9: a request that returns an answer has appended exactly two messages  *)
(* to its session: first one with role user holding the question, then one *)
(* with role assistant holding the returned answer; the table holds no     *)
(* other new row.                                                          *)
(***************************************************************************)
C9_PersistsExchange ==
    \A r \in Requests :
        LET f == frame[r]
        IN  Returned(r) =>
              /\ PersistedTwo(r)
              /\ f.appended = <<f.rows_before + 1, f.rows_before + 2>>
              /\ LET user == messages[f.appended[1]]
                     assistant == messages[f.appended[2]]
                 IN  /\ user.session_id = f.session_id
                     /\ user.role = "user"
                     /\ user.content = f.question
                     /\ user.content = (IF f.kind = "text" THEN "q1"
                                        ELSE IF StartsWithEn(f.source_language)
                                        THEN f.transcription ELSE "q1")
                     /\ assistant.session_id = f.session_id
                     /\ assistant.role = "assistant"
                     /\ assistant.content = f.response.answer
                     /\ user.created_at <= assistant.created_at

C9_Witness ==
    \E r \in Requests :
        /\ Returned(r)
        /\ frame[r].rows_before > 0
        /\ Len(messages) = frame[r].rows_before + 2
        /\ messages[Len(messages) - 1].role = "user"
        /\ messages[Len(messages) - 1].content = frame[r].question
        /\ messages[Len(messages)].role = "assistant"
        /\ messages[Len(messages)].content = frame[r].response.answer

(***************************************************************************)
(* C10: the persisted metadata records the path taken: the user message    *)
(* carries input_type = text for text input, transcription and             *)
(* source_language for audio input; the assistant message carries the      *)
(* source returned to the caller and chunks_used, the number of retrieved  *)
(* chunks on the retrieval path and 0 on the history path.                 *)
(***************************************************************************)
C10_MetadataRecordsPath ==
    \A r \in Requests :
        LET f == frame[r]
        IN  (Returned(r) /\ Len(f.appended) = 2) =>
              LET user == MetadataOf(messages[f.appended[1]])
                  assistant == MetadataOf(messages[f.appended[2]])
              IN  /\ f.kind = "text" => user = [input_type |-> "text"]
                  /\ f.kind = "audio" =>
                        /\ DOMAIN user = {"transcription", "source_language"}
                        /\ user.transcription = f.transcription
                        /\ user.source_language = f.source_language
                  /\ DOMAIN assistant = {"source", "chunks_used"}
                  /\ assistant.source = f.response.source
                  /\ assistant.source \in {"history", "vectordb"}
                  /\ assistant.source = "history" => assistant.chunks_used = 0
                  /\ assistant.source = "vectordb" =>
                        /\ f.chunks # None
                        /\ assistant.chunks_used = Len(f.chunks)

C10_Witness ==
    \E r \in Requests :
        /\ Returned(r)
        /\ frame[r].kind = "audio"
        /\ frame[r].response.source = "vectordb"
        /\ Len(frame[r].chunks) = 2
        /\ MetadataOf(messages[frame[r].appended[2]]).chunks_used = 2

(***************************************************************************)
(* C11: the result the engine returns holds the answer and the source tag; *)
(* its chunk list is a list exactly when the source is "vectordb", and is  *)
(* then the list answer_with_retrieval got from retrieval, in the same     *)
(* order; with source "history" the chunk list is None and retrieval was   *)
(* not called.                                                             *)
(***************************************************************************)
C11_ResultCarriesChunks ==
    \A r \in Requests :
        LET f == frame[r]
            res == f.run_result
        IN  Returned(r) =>
              /\ res # NoRunResult
              /\ res.answer = f.answer
              /\ res.answer = messages[f.appended[2]].content
              /\ res.source \in {"history", "vectordb"}
              /\ res.source = f.response.source
              /\ res.source = "vectordb" <=> res.retrieved_chunks # None
              /\ res.source = "vectordb" =>
                    /\ Count(f.calls, "retrieve") = 1
                    /\ res.retrieved_chunks = f.chunks
                    /\ res.retrieved_chunks \in RetrievalResults(TOP_K_RETRIEVAL)
              /\ res.source = "history" =>
                    /\ Count(f.calls, "retrieve") = 0
                    /\ f.chunks = None
                    /\ res.retrieved_chunks = None

C11_Witness ==
    \E r \in Requests :
        /\ Returned(r)
        /\ frame[r].run_result.source = "vectordb"
        /\ frame[r].chunks = Ranking
        /\ frame[r].run_result.retrieved_chunks = <<"c1", "c2">>

(***************************************************************************)
(* C12: when the phase-1 generation call raises, the request ends in the   *)
(* engine's labelled error, which is not the soft failure result: phase 1  *)
(* was called once, retrieval and phase 2 were not called, no message was  *)
(* persisted and nothing was returned.                                     *)
(***************************************************************************)
C12_Phase1ErrorPropagates ==
    \A r \in Requests :
        LET f == frame[r]
        IN  f.raw = Raises =>
              /\ Failed(r)
              /\ f.response.detail = LLM_ERROR
              /\ f.result # NEED_MORE_CONTEXT
              /\ f.result.status = Absent
              /\ EngineCalls(f) = <<"phase1">>
              /\ f.appended = <<>>
              /\ Len(messages) = f.rows_before
              /\ f.run_result = NoRunResult

C12_Witness ==
    \E r \in Requests :
        /\ Failed(r)
        /\ frame[r].raw = Raises
        /\ frame[r].history # <<>>
        /\ frame[r].response.detail = LLM_ERROR

(***************************************************************************)
(* C13: when the phase-2 generation call raises, the request ends in the   *)
(* same labelled engine error as for a phase-1 generation error, the call  *)
(* is not repeated and no message is persisted.                            *)
(***************************************************************************)
C13_Phase2ErrorAsPhase1 ==
    \A r \in Requests :
        LET f == frame[r]
        IN  f.raw2 = Raises =>
              /\ Failed(r)
              /\ f.response.detail = LLM_ERROR
              /\ Count(f.calls, "phase2") = 1
              /\ f.appended = <<>>
              /\ Len(messages) = f.rows_before

(***************************************************************************)
(* C14: a chat request that ended in an error response has left the        *)
(* messages table as it was when the engine was called: it has appended no *)
(* row.                                                                    *)
(***************************************************************************)
C14_ErrorLeavesNoMessage ==
    \A r \in Requests :
        Failed(r) =>
            /\ frame[r].appended = <<>>
            /\ Len(messages) = frame[r].rows_before

(***************************************************************************)
(* Vocabulary of the store properties.                                     *)
(***************************************************************************)
\* The limits the properties range over
Limits == (1..MaxMessages) \cup {SLIDING_WINDOW_SIZE}

\* The role and content of the entries of a history
Project(h) == [i \in 1..Len(h) |-> [role |-> h[i].role, content |-> h[i].content]]

\* The last n entries of a list
Suffix(h, n) == SubSeq(h, Len(h) - n + 1, Len(h))

\* The direct user's last call was an add_message that returned an id
Appended == last.op = "add_message" /\ last.exc = ""

(***************************************************************************)
(* C15: for every session id and limit N, every result of                  *)
(* get_recent_messages(id, N) has at most N and at most count entries and  *)
(* is the last min(N, count) entries of every result of                    *)
(* get_session_history(id), in the same order, equal timestamps included.  *)
(***************************************************************************)
C15_RecentIsSuffixOfHistory ==
    \A session_id \in SessionArgs, N \in Limits :
        LET count == Cardinality(RowsOf(messages, session_id))
        IN  \A w \in get_recent_messages(messages, session_id, N),
               h \in get_session_history(messages, session_id) :
                /\ Len(w) <= N
                /\ Len(w) <= count
                /\ w = Project(Suffix(h, Min(N, count)))

(***************************************************************************)
(* C16: right after add_message returned, get_recent_messages on that      *)
(* session with any limit of at least 1 gives a list whose last element    *)
(* has the role and content of the message just appended.                  *)
(***************************************************************************)
C16_RecentEndsWithAppended ==
    Appended =>
        \A N \in Limits :
            \A w \in get_recent_messages(messages, last.session_id, N) :
                /\ w # <<>>
                /\ w[Len(w)] = [role |-> last.role, content |-> last.content]

(***************************************************************************)
(* C17: right after add_message(…, metadata = m) returned, the entry of    *)
(* that message in get_session_history has metadata equal to m; None when  *)
(* no metadata was passed.                                                 *)
(***************************************************************************)
C17_MetadataRoundTrip ==
    Appended =>
        \A h \in get_session_history(messages, last.session_id) :
            \E i \in 1..Len(h) :
                /\ h[i].id = last.id
                /\ h[i].metadata = last.metadata

(***************************************************************************)
(* C18: a step that stores a message stores exactly one, for an existing   *)
(* session, and in the same step sets that session's updated_at to the     *)
(* time of the write, which is not earlier than its previous value, its    *)
(* created_at or the message's created_at, and changes no other session;   *)
(* a step that changes an existing session's updated_at stores a message   *)
(* of that session.                                                        *)
(***************************************************************************)
C18_TouchWithInsert ==
    [][/\ messages' # messages =>
            /\ messages' = Append(messages, messages'[Len(messages')])
            /\ LET row == messages'[Len(messages')]
               IN  /\ \E s \in sessions : \E u \in sessions' :
                        /\ s.id = row.session_id
                        /\ u.id = s.id
                        /\ u.created_at = s.created_at
                        /\ u.updated_at = now'
                        /\ u.updated_at >= s.updated_at
                        /\ u.updated_at >= u.created_at
                        /\ u.updated_at >= row.created_at
                   /\ \A o \in sessions : o.id # row.session_id => o \in sessions'
                   /\ Cardinality(sessions') = Cardinality(sessions)
       /\ \A s \in sessions : \A u \in sessions' :
            (u.id = s.id /\ u # s) =>
                /\ Len(messages') = Len(messages) + 1
                /\ messages'[Len(messages')].session_id = s.id
      ]_vars

C18_Witness ==
    /\ Appended
    /\ \E s \in sessions :
        /\ s.id = last.session_id
        /\ s.updated_at > s.created_at
        /\ messages[last.id].created_at = s.updated_at
        /\ Cardinality(RowsOf(messages, s.id)) >= 2

(***************************************************************************)
(* C19: add_message with a session id that no session has raises; the     *)
(* step stores no message, creates no session and changes no session.      *)
(***************************************************************************)
C19_UnknownSessionRejected ==
    [][(/\ last' # last
        /\ last'.op = "add_message"
        /\ ~SessionExists(sessions, last'.session_id)) =>
            /\ last'.exc = "IntegrityError"
            /\ last'.id = 0
            /\ messages' = messages
            /\ sessions' = sessions
      ]_vars

C19_Witness ==
    /\ last.op = "add_message"
    /\ last.exc = "IntegrityError"
    /\ ~SessionExists(sessions, last.session_id)
    /\ sessions # {}
    /\ messages # <<>>

(***************************************************************************)
(* C20: no step removes or changes a stored message: the table after the   *)
(* step holds every row it held before, with the same id, session, role,   *)
(* content, metadata and creation timestamp, at the same place; and a step *)
(* of a read (the history window of a chat request, the full history, the  *)
(* list of sessions) changes neither table.                                *)
(***************************************************************************)
C20_AppendOnly ==
    [][/\ Len(messages') >= Len(messages)
       /\ \A i \in 1..Len(messages) :
            /\ messages'[i] = messages[i]
            /\ messages'[i].id = i
       /\ \A r \in Requests :
            (pc[r] = "get_history" \/ (pc[r] = "idle" /\ HasRead(r)')) =>
                /\ messages' = messages
                /\ sessions' = sessions
      ]_vars

C20_Witness ==
    \E r \in Requests :
        /\ HasRead(r)
        /\ frame[r].kind = "history"
        /\ Len(frame[r].body) >= 2
        /\ frame[r].body[1].role = "user"
        /\ frame[r].body[1].metadata = [input_type |-> "text"]

(***************************************************************************)
(* C21: a chat request leaves the request surface in one step, either      *)
(* rejected or handed to the engine.  Rejected (400): the step changes     *)
(* neither table nor the generation client, and the request has read no    *)
(* history, issued no transcription, translation, generation or retrieval  *)
(* call and appended no message.  Handed to the engine: its session_id is  *)
(* present and non-empty, and the message of a text request is non-empty   *)
(* after strip().                                                          *)
(***************************************************************************)
ValidationErrors ==
    {"session_id is required", "message is required", "Audio file is empty"}

C21_RejectedBeforeEngine ==
    [][\A r \in Requests :
        (pc[r] = "idle" /\ pc'[r] # "idle" /\ IsChat(r)') =>
            LET f == frame'[r]
            IN  \/ /\ pc'[r] = "done"
                   /\ f.response.status = 400
                   /\ f.response.detail \in ValidationErrors
                   /\ f.calls = <<>> /\ f.history = <<>> /\ f.appended = <<>>
                   /\ f.raw = Unset /\ f.raw2 = Unset /\ f.transcription = ""
                   /\ messages' = messages /\ sessions' = sessions
                   /\ client' = client
                \/ /\ pc'[r] \in {"get_history", "transcribe"}
                   /\ f.response = NoResponse
                   /\ f.session_id \notin {NoneStr, ""}
                   /\ f.kind = "text" => f.question \notin {"", " "}
                   /\ f.calls = <<>> /\ f.appended = <<>>
      ]_vars

C21_Witness ==
    \E r \in Requests :
        /\ pc[r] = "done"
        /\ frame[r].kind = "text"
        /\ frame[r].response.status = 400
        /\ frame[r].response.detail = "message is required"
        /\ frame[r].calls = <<>>
        /\ messages # <<>>

(***************************************************************************)
(* C22: an audio request tagged en-US that has its transcript has called   *)
(* transcription once and never calls translation; past the translation    *)
(* step its question is the transcript, and the user message it persists   *)
(* has the transcript as content.  An audio request with any other tag     *)
(* that has its transcript has called translation exactly once as soon as  *)
(* it is past the translation step, and not before.                        *)
(***************************************************************************)
EnglishTags == {"en-US"}

\* The transcription step of r has succeeded
HasTranscript(r) == frame[r].kind = "audio" /\ frame[r].transcription # ""

C22_EnglishSkipsTranslation ==
    \A r \in Requests :
        LET f == frame[r]
        IN  HasTranscript(r) =>
              /\ Count(f.calls, "transcribe") = 1
              /\ f.source_language \in EnglishTags =>
                    /\ Count(f.calls, "translate") = 0
                    /\ pc[r] # "translate" => f.question = f.transcription
                    /\ f.appended # <<>> =>
                          /\ messages[f.appended[1]].role = "user"
                          /\ messages[f.appended[1]].content = f.transcription
              /\ f.source_language \notin EnglishTags =>
                    Count(f.calls, "translate") = (IF pc[r] = "translate" THEN 0 ELSE 1)

C22_Witness ==
    \E r \in Requests :
        /\ Returned(r)
        /\ frame[r].kind = "audio"
        /\ frame[r].source_language = "en-US"
        /\ frame[r].calls[1] = "transcribe"
        /\ Count(frame[r].calls, "translate") = 0
        /\ Len(frame[r].appended) = 2
        /\ messages[frame[r].appended[1]].content = "t1"

(***************************************************************************)
(* C23: an audio request moves through its steps in the order transcribe,  *)
(* translate, fetch history, decide (phase 1, then retrieval and phase 2), *)
(* persist user, persist assistant, each step taken at most once.  It      *)
(* leaves the transcription step for the translation step only with a      *)
(* non-empty transcript.  A step that ends the request from the            *)
(* transcription or the translation step ends it with an error response,   *)
(* changes neither table, and leaves the request without a history window, *)
(* generation or retrieval call, or appended message; an ended request is  *)
(* not run again.                                                          *)
(***************************************************************************)
AudioOrder ==
    [idle              |-> {"transcribe", "done"},
     transcribe        |-> {"translate", "done"},
     translate         |-> {"get_history", "done"},
     get_history       |-> {"try_history", "done"},
     try_history       |-> {"retrieve", "persist_user", "done"},
     retrieve          |-> {"persist_user", "done"},
     persist_user      |-> {"persist_assistant", "done"},
     persist_assistant |-> {"done"},
     done              |-> {"idle"}]

C23_AdapterFailureIsFatal ==
    [][\A r \in Requests :
        (pc'[r] # pc[r] /\ (frame[r].kind = "audio" \/ frame'[r].kind = "audio")) =>
            /\ pc'[r] \in AudioOrder[pc[r]]
            /\ (pc[r] = "transcribe" /\ pc'[r] = "translate") =>
                    /\ frame'[r].transcription # ""
                    /\ frame'[r].calls = <<"transcribe">>
            /\ (pc[r] \in {"transcribe", "translate"} /\ pc'[r] = "done") =>
                    /\ frame'[r].response.status = 500
                    /\ frame'[r].history = <<>>
                    /\ EngineCalls(frame'[r]) = <<>>
                    /\ frame'[r].appended = <<>>
                    /\ messages' = messages /\ sessions' = sessions
      ]_vars

C23_Witness ==
    \E r \in Requests :
        /\ Failed(r)
        /\ frame[r].kind = "audio"
        /\ frame[r].calls = <<"transcribe", "translate">>
        /\ frame[r].response.detail = "RuntimeError: translation"
        /\ RowsOf(messages, frame[r].session_id) # {}
        /\ frame[r].history = <<>>

(***************************************************************************)
(* C26: a call of answer_with_retrieval that got its chunks asked for the  *)
(* top 2, got at most 2, and built its prompt from every returned chunk,   *)
(* the i-th in rank order labelled i, counting from 1, and from the last   *)
(* min(6, length) turns of the history it was given, in the order given;   *)
(* the prompt of an empty history has no history section.                  *)
(***************************************************************************)
Retrieved == last.op = "answer_with_retrieval" /\ "prompt" \in DOMAIN last

C26_PromptFromChunksAndLastTurns ==
    Retrieved =>
        LET h == last.history
            k == IF Len(h) < 6 THEN Len(h) ELSE 6
            p == last.prompt
        IN  /\ last.top_k = 2
            /\ Len(last.chunks) <= 2
            /\ Len(p.context) = Len(last.chunks)
            /\ \A i \in 1..Len(last.chunks) : p.context[i] = <<i, last.chunks[i]>>
            /\ Len(p.turns) = k
            /\ \A i \in 1..k :
                    LET turn == h[Len(h) - k + i]
                    IN  /\ p.turns[i][2] = turn.content
                        /\ p.turns[i][1] = "User" <=> turn.role = "user"
            /\ p.history_section <=> h # <<>>
            /\ p.question = last.question

C26_Witness ==
    /\ Retrieved
    /\ Len(last.history) = 7
    /\ Len(last.prompt.turns) = 6
    /\ last.prompt.turns[1] = <<"Assistant", "2">>
    /\ last.prompt.turns[6] = <<"User", "7">>
    /\ last.prompt.context = << <<1, "c1">>, <<2, "c2">> >>
    /\ last.exc = ""

(***************************************************************************)
(* C27: when no request is running and every stored message belongs to a   *)
(* completed exchange (the table is a sequence of pairs: a user message    *)
(* directly followed by the assistant message of the same session), every  *)
(* list get_session_history can return for a session, and every window     *)
(* get_recent_messages can return for it, has even length and alternates   *)
(* user, assistant, starting with user.                                    *)
(***************************************************************************)
\* Every stored message belongs to a completed exchange
OnlyExchanges ==
    /\ Len(messages) % 2 = 0
    /\ \A i \in 1..Len(messages) :
            i % 2 = 1 =>
                /\ messages[i].role = "user"
                /\ messages[i + 1].role = "assistant"
                /\ messages[i + 1].session_id = messages[i].session_id

Alternates(h) ==
    /\ Len(h) % 2 = 0
    /\ \A i \in 1..Len(h) : h[i].role = (IF i % 2 = 1 THEN "user" ELSE "assistant")

C27_HistoryAlternates ==
    (Active = {} /\ OnlyExchanges) =>
        \A s \in sessions :
            /\ \A h \in get_session_history(messages, s.id) : Alternates(h)
            /\ \A w \in get_recent_messages(messages, s.id, SLIDING_WINDOW_SIZE) :
                    Alternates(w)

(***************************************************************************)
(* C28: with requests served one at a time, the step that reads the        *)
(* history window of a request sees the table as it was when the request   *)
(* began and yields the messages stored for the request's session by then  *)
(* (at most 10 of them in the model), oldest first by creation time; no    *)
(* later step of the request changes the window; the request appends only  *)
(* rows beyond those the table held when it began; and it appends its      *)
(* question only once the decision is made: from history after a success   *)
(* of phase 1, from retrieval after the phase-2 call.                      *)
(***************************************************************************)
\* w lists the rows S of msgs as role and content, oldest first by created_at
IsWindowOf(w, msgs, S) ==
    /\ Len(w) = Cardinality(S)
    /\ \E f \in Perms(S) :
        /\ \A i \in 1..Len(w) :
                w[i] = [role |-> msgs[f[i]].role, content |-> msgs[f[i]].content]
        /\ \A i, j \in 1..Len(w) :
                i < j => msgs[f[i]].created_at <= msgs[f[j]].created_at

Indexed == {<<d.source, d.text>> : d \in chroma.docs}

\* k is the only call that has started
Alone(k) == \A j \in Callers \ {k} : query[j].pc = "start"

C29_AllFilesIndexed ==
    \A k \in Callers :
        (Alone(k) /\ query[k].inited) =>
            /\ chroma.exists
            /\ \A file \in data_dir :
                \A i \in 1..Len(FileChunks[file]) :
                    <<file, FileChunks[file][i]>> \in Indexed

(***************************************************************************)
(* C30: of two calls that have both found the collection missing, none     *)
(* ends in an error caused by the other (a scrape that fails is not caused *)
(* by the other), and one that returns has queried a collection that held  *)
(* exactly the chunks of one file, and returns chunks.                     *)
(***************************************************************************)
\* The documents are exactly the chunks of one file
FullyBuilt(docs) ==
    \E file \in DOMAIN FileChunks : docs = Documents(FileChunks[file], file)

C30_ConcurrentFirstQueriesSafe ==
    \A k \in Callers :
        (query[k].pc = "done" /\ \A j \in Callers : query[j].missing) =>
            /\ query[k].exc \in {"", "ScrapeError"}
            /\ query[k].exc = "" =>
                    /\ FullyBuilt(query[k].seen)
                    /\ query[k].output # {}

(***************************************************************************)
(* C24: requests served at the same time for different sessions do not     *)
(* affect each other: a step of a request changes no message and no        *)
(* session row of another session and no other request's state, and the    *)
(* window it reads holds the messages of its own session only.             *)
(***************************************************************************)
\* The rows stored for session sid
StoredFor(sid) == {i \in 1..Len(messages) : messages[i].session_id = sid}

C24_SessionsIsolated ==
    [][\A r \in Requests :
        pc'[r] # pc[r] =>
            LET sid == frame'[r].session_id
            IN  /\ \A i \in 1..Len(messages) :
                        /\ i <= Len(messages')
                        /\ messages[i].session_id # sid => messages'[i] = messages[i]
                /\ \A i \in (Len(messages) + 1)..Len(messages') :
                        messages'[i].session_id = sid
                /\ \A s \in sessions \cup sessions' :
                        s.id # sid => s \in sessions \cap sessions'
                /\ \A q \in Requests \ {r} :
                        pc'[q] = pc[q] /\ frame'[q] = frame[q]
                /\ (pc[r] = "get_history" /\ pc'[r] = "try_history") =>
                        /\ Len(frame'[r].history) = Cardinality(StoredFor(sid))
                        /\ \A i \in 1..Len(frame'[r].history) :
                              \E j \in StoredFor(sid) :
                                  frame'[r].history[i] =
                                      [role |-> messages[j].role,
                                       content |-> messages[j].content]
      ]_vars

\* One request ran from entry to return on its session while a request on
\* another session was in flight with its user message already stored
C24_Witness ==
    \E r, q \in Requests :
        /\ pc[q] = "persist_assistant"
        /\ frame[q].appended = <<1>>
        /\ Returned(r)
        /\ frame[r].session_id # frame[q].session_id
        /\ frame[r].rows_before = 1
        /\ frame[r].history = <<>>
        /\ frame[r].appended = <<2, 3>>

(***************************************************************************)
(* C25: two requests on one session interleave: both can read the same     *)
(* window before either stores a message, and the four messages are stored *)
(* in the order in which the inserts commit.  What holds is only this: a   *)
(* request's window is the session's rows stored when it read, it is not   *)
(* read again whatever is stored afterwards, and each insert lands behind  *)
(* every row stored before it.                                             *)
(***************************************************************************)
C25_CommitOrderOnly ==
    [][\A r \in Requests :
        LET f == frame[r]
            g == frame'[r]
        IN  /\ (pc[r] = "get_history" /\ pc'[r] = "try_history") =>
                    IsWindowOf(g.history, messages, StoredFor(f.session_id))
            /\ (pc[r] \in {"try_history", "retrieve", "persist_user",
                           "persist_assistant", "done"}) =>
                    g.history = f.history
            /\ (pc[r] # "idle" /\ g.appended # f.appended) =>
                    /\ g.appended = Append(f.appended, Len(messages) + 1)
                    /\ Len(messages') = Len(messages) + 1
                    /\ SubSeq(messages', 1, Len(messages)) = messages
                    /\ messages'[Len(messages')].session_id = f.session_id
      ]_vars

\* Both requests on one session read the empty window, and the table holds
\* question, question, answer, answer: neither answer follows its question
C25_Witness ==
    \E r, q \in Requests :
        /\ r # q
        /\ Returned(r) /\ Returned(q)
        /\ frame[r].session_id = frame[q].session_id
        /\ frame[r].history = <<>>
        /\ frame[q].history = <<>>
        /\ frame[r].appended = <<1, 3>>
        /\ frame[q].appended = <<2, 4>>
        /\ <<messages[1].role, messages[2].role, messages[3].role, messages[4].role>>
                = <<"user", "user", "assistant", "assistant">>

====
